---- MODULE Spec2Model ----
(***************************************************************************)
(* Model of etl.py: the Sparkify data-lake ETL.  main() runs               *)
(* process_song_data and then process_log_data against one output bucket.  *)
(* A DataFrame is a finite sequence of rows (records); the output bucket   *)
(* is a map from qualified paths to the table stored there.                *)
(*                                                                         *)
(* Conventions.  A JSON null is the value NULL.  The 13-digit epoch        *)
(* milliseconds of a log record are held as [s, ms], standing for          *)
(* s * 1000 + ms, so that every number stays inside TLC's 32-bit integers. *)
(* The Spark session time zone is taken to be UTC.                         *)
(***************************************************************************)
EXTENDS Integers, Sequences, FiniteSets, TLC

\* ------------------------------------------------------------------ bounds
MaxCatalog == 2
MaxEvents == 2

\* the numbers of partitions the joined rows can lie in
PartitionCounts == {1, 2}

NULL == "NULL"

\* --------------------------------------------------------- sequence helpers
Range(s) == {s[i] : i \in 1..Len(s)}

RECURSIVE Concat(_)
Concat(ss) == IF ss = <<>> THEN <<>> ELSE Head(ss) \o Concat(Tail(ss))

\* the rows of s at the positions in idx, in their order in s
RECURSIVE Pick(_, _, _)
Pick(s, idx, i) ==
    IF i > Len(s) THEN <<>>
    ELSE (IF i \in idx THEN <<s[i]>> ELSE <<>>) \o Pick(s, idx, i + 1)

\* ------------------------------------------------------------------ inputs
\* song_data/*/*/*/*.json : one catalog record per file (line 37)
CatalogRecord(sid, title, aid, aname, loc, year, dur) ==
    [song_id |-> sid, title |-> title, artist_id |-> aid, artist_name |-> aname,
     artist_location |-> loc, artist_latitude |-> NULL, artist_longitude |-> NULL,
     year |-> year, duration |-> dur]

CatalogPool ==
    << CatalogRecord("S1", "Y", "A1", "X", "Oslo", 2001, "210.5"),
       \* another song_id with the same (artist_name, title, duration)
       CatalogRecord("S2", "Y", "A1", "X", "Oslo", 2001, "210.5"),
       \* the same song_id again with another title, year and location
       CatalogRecord("S1", "Z", "A1", "X", "Bergen", 1999, "210.5") >>

\* log_data/*.json : one usage event per line (line 85)
UsageEvent(uid, level, page, artist, song, length, s, ms, sess) ==
    [userId |-> uid, firstName |-> "F", lastName |-> "L", gender |-> "M",
     level |-> level, page |-> page, artist |-> artist, song |-> song,
     length |-> length, ts |-> [s |-> s, ms |-> ms], sessionId |-> sess,
     location |-> "Rome", useragent |-> "UA"]

EventPool ==
    << UsageEvent("U1", "free", "NextSong", "X", "Y", "210.5", 1541106106, 796, 1),
       \* same user, other level, same second, no catalog match
       UsageEvent("U1", "paid", "NextSong", "X", "Q", "210.5", 1541106106, 100, 2),
       \* not a play; the only event of user U2
       UsageEvent("U2", "free", "Home", NULL, NULL, NULL, 1546300799, 57, 3),
       \* a play in the same second as the Home event; artist and song are in
       \* the catalog, with another duration
       UsageEvent("U1", "free", "NextSong", "X", "Y", "199.0", 1546300799, 900, 4) >>

\* A dataset is an unordered collection of distinct records: it is drawn as
\* the records at up to max positions of the pool, in the pool's order.
Datasets(pool, max) ==
    { Pick(pool, idx, 1) :
        idx \in { I \in SUBSET (1..Len(pool)) : I # {} /\ Cardinality(I) <= max } }

\* ------------------------------------------------------- calendar functions
\* days since 1970-01-01 of the civil date y-m-d
DaysFromCivil(y, m, d) ==
    LET yy  == IF m <= 2 THEN y - 1 ELSE y
        era == yy \div 400
        yoe == yy - era * 400
        mp  == IF m > 2 THEN m - 3 ELSE m + 9
        doy == (153 * mp + 2) \div 5 + d - 1
        doe == yoe * 365 + yoe \div 4 - yoe \div 100 + doy
    IN  era * 146097 + doe - 719468

\* the civil date of the day z days after 1970-01-01
CivilFromDays(z) ==
    LET zz  == z + 719468
        era == zz \div 146097
        doe == zz - era * 146097
        yoe == (doe - doe \div 1460 + doe \div 36524 - doe \div 146096) \div 365
        doy == doe - (365 * yoe + yoe \div 4 - yoe \div 100)
        mp  == (5 * doy + 2) \div 153
        d   == doy - (153 * mp + 2) \div 5 + 1
        m   == IF mp < 10 THEN mp + 3 ELSE mp - 9
        y   == yoe + era * 400 + (IF m <= 2 THEN 1 ELSE 0)
    IN  [year |-> y, month |-> m, day |-> d]

MonthNames ==
    << "January", "February", "March", "April", "May", "June", "July",
       "August", "September", "October", "November", "December" >>

DayNames == << "Mon", "Tue", "Wed", "Thu", "Fri", "Sat", "Sun" >>

\* ISO day of week, Monday = 1 (1970-01-01 was a Thursday)
IsoDow(days) == ((days + 3) % 7) + 1

DayOfYear(days) ==
    days - DaysFromCivil(CivilFromDays(days).year, 1, 1) + 1

WeeksInYear(y) ==
    LET P(x) == (x + x \div 4 - x \div 100 + x \div 400) % 7
    IN  IF P(y) = 4 \/ P(y - 1) = 3 THEN 53 ELSE 52

\* weekofyear(): ISO 8601 week number
weekofyear(dt) ==
    LET days == dt \div 86400
        y    == CivilFromDays(days).year
        w    == (DayOfYear(days) - IsoDow(days) + 10) \div 7
    IN  IF w < 1 THEN WeeksInYear(y - 1)
        ELSE IF w > WeeksInYear(y) THEN 1
        ELSE w

\* df.ts / 1000 cast to a whole number of seconds by from_unixtime
TsSeconds(ts) == ts.s + ts.ms \div 1000

\* from_unixtime(sec): the 'yyyy-MM-dd HH:mm:ss' text of the instant
from_unixtime(sec) ==
    LET c   == CivilFromDays(sec \div 86400)
        sod == sec % 86400
    IN  [yyyy |-> c.year, MM |-> c.month, dd |-> c.day,
         HH |-> sod \div 3600, mm |-> (sod % 3600) \div 60, ss |-> sod % 60]

\* to_timestamp(text): the instant (epoch seconds) the text denotes
to_timestamp(t) ==
    DaysFromCivil(t.yyyy, t.MM, t.dd) * 86400 + t.HH * 3600 + t.mm * 60 + t.ss

\* date_format(datetime, pattern) for the patterns etl.py uses
date_format(dt, pattern) ==
    LET days == dt \div 86400
        c    == CivilFromDays(days)
    IN  CASE pattern = "H"    -> (dt % 86400) \div 3600
          [] pattern = "E"    -> DayNames[IsoDow(days)]
          [] pattern = "d"    -> c.day
          [] pattern = "D"    -> DayOfYear(days)
          [] pattern = "MMMM" -> MonthNames[c.month]
          [] pattern = "y"    -> c.year

\* --------------------------------------------------------- Spark operators
\* SQL equality: a comparison with a null is not true
SqlEq(a, b) == a # NULL /\ b # NULL /\ a = b

\* dropDuplicates(): one row of every group of equal rows
dropDuplicates(df) ==
    Pick(df, {i \in 1..Len(df) : \A j \in 1..(i - 1) : df[j] # df[i]}, 1)

\* (variant) no rows dropped
keep_all_rows(df) == {df}

\* dropDuplicates(['song_id']): one row of every group of rows with the same
\* song_id.  Spark does not say which row of a group is kept, so this is the
\* set of the results it can give.
dropDuplicates_song_id(df) ==
    { Pick(df, idx, 1) :
        idx \in { I \in SUBSET (1..Len(df)) :
                    \A i \in 1..Len(df) :
                        Cardinality({j \in I : df[j].song_id = df[i].song_id}) = 1 } }

\* monotonically_increasing_id(): partition number in the upper bits, row
\* number inside the partition in the lower 33; [partition, offset] stands
\* for partition * 2^33 + offset.  The rows lie in n partitions.
monotonically_increasing_id(len, n, i) ==
    LET size == (len + n - 1) \div n
    IN  [partition |-> (i - 1) \div size, offset |-> (i - 1) % size]

\* ------------------------------------------------------- process_song_data
\* line 46: df.select(...)
songs_select(df) ==
    [i \in 1..Len(df) |->
        [song_id |-> df[i].song_id, title |-> df[i].title,
         artist_name |-> df[i].artist_name, artist_id |-> df[i].artist_id,
         year |-> df[i].year, duration |-> df[i].duration]]

\* line 46: the results songs_table can have
songs_table(df) == dropDuplicates_song_id(songs_select(df))

\* lines 53-60: SELECT distinct ... FROM songs
artists_table(df) ==
    dropDuplicates(
        [i \in 1..Len(df) |->
            [artist_id |-> df[i].artist_id, name |-> df[i].artist_name,
             location |-> df[i].artist_location,
             latitude |-> df[i].artist_latitude,
             longitude |-> df[i].artist_longitude]])

\* -------------------------------------------------------- process_log_data
\* line 91: df.filter(df.page == "NextSong")
df_filtered(df) ==
    LET IsPlay(e) == SqlEq(e.page, "NextSong") IN SelectSeq(df, IsPlay)

\* (variant) users de-duplicated on userId alone
users_table_by_userId(df) ==
    Pick(df, {i \in 1..Len(df) : \A j \in 1..(i - 1) : df[j].userId # df[i].userId}, 1)

\* (variant) users taken from the plays only
users_table_of_plays(df) ==
    dropDuplicates(
        [i \in 1..Len(df_filtered(df)) |->
            [userId |-> df_filtered(df)[i].userId,
             firstName |-> df_filtered(df)[i].firstName,
             lastName |-> df_filtered(df)[i].lastName,
             gender |-> df_filtered(df)[i].gender,
             level |-> df_filtered(df)[i].level]])

\* line 94: users from the unfiltered df
users_table(df) ==
    dropDuplicates(
        [i \in 1..Len(df) |->
            [userId |-> df[i].userId, firstName |-> df[i].firstName,
             lastName |-> df[i].lastName, gender |-> df[i].gender,
             level |-> df[i].level]])

\* lines 103 and 107: the columns timestamp and datetime of one row
timestamp(e) == from_unixtime(TsSeconds(e.ts))
datetime(e) == to_timestamp(timestamp(e))

\* (variant) the month column with the pattern 'MMM'
time_row_short_month(e) ==
    LET dt == datetime(e)
        MMM == << "Jan", "Feb", "Mar", "Apr", "May", "Jun", "Jul", "Aug",
                  "Sep", "Oct", "Nov", "Dec" >>
    IN  [datetime |-> dt,
         Hour  |-> date_format(dt, "H"),
         DOW   |-> date_format(dt, "E"),
         DOM   |-> date_format(dt, "d"),
         DOY   |-> date_format(dt, "D"),
         Month |-> MMM[CivilFromDays(dt \div 86400).month],
         year  |-> date_format(dt, "y"),
         week  |-> weekofyear(dt)]

\* lines 110-116: the row of the time table of one play
time_row(e) ==
    LET dt == datetime(e)
    IN  [datetime |-> dt,
         Hour  |-> date_format(dt, "H"),
         DOW   |-> date_format(dt, "E"),
         DOM   |-> date_format(dt, "d"),
         DOY   |-> date_format(dt, "D"),
         Month |-> date_format(dt, "MMMM"),
         year  |-> date_format(dt, "y"),
         week  |-> weekofyear(dt)]

\* lines 110-117: time_table, from df_filtered
time_table(df) ==
    LET plays == df_filtered(df)
    IN  dropDuplicates([i \in 1..Len(plays) |-> time_row(plays[i])])

\* the right side of a left-outer row without a match
NullSong ==
    [song_id |-> NULL, title |-> NULL, artist_name |-> NULL, artist_id |-> NULL,
     year |-> NULL, duration |-> NULL]

\* (variant) the join without the duration
JoinOnArtistAndSong(e, s) ==
    /\ SqlEq(e.artist, s.artist_name)
    /\ SqlEq(e.song, s.title)

\* lines 126-127: the join condition
JoinCondition(e, s) ==
    /\ SqlEq(e.artist, s.artist_name)
    /\ SqlEq(e.song, s.title)
    /\ SqlEq(e.length, s.duration)

\* lines 126-127: df_filtered.join(song_df, ..., 'left_outer')
joined_df(plays, song_rows) ==
    Concat([i \in 1..Len(plays) |->
        LET Matches(s) == JoinCondition(plays[i], s)
            m == SelectSeq(song_rows, Matches)
        IN  IF m = <<>>
            THEN << [l |-> plays[i], r |-> NullSong] >>
            ELSE [j \in 1..Len(m) |-> [l |-> plays[i], r |-> m[j]]]])

\* lines 129-138: the columns of one songplays row, songplay_id apart
songplays_select(l, r) ==
    [timestamp |-> timestamp(l), user_id |-> l.userId, level |-> l.level,
     song_id |-> r.song_id, artist_id |-> r.artist_id,
     session_id |-> l.sessionId, location |-> l.location,
     user_agent |-> l.useragent,
     month |-> date_format(datetime(l), "MMMM"),
     year |-> date_format(datetime(l), "y")]

\* lines 126-139: songplays_table when the joined rows lie in n partitions
songplays_table(df, song_rows, n) ==
    LET j == joined_df(df_filtered(df), song_rows)
    IN  [i \in 1..Len(j) |->
            [c \in {"songplay_id"} |-> monotonically_increasing_id(Len(j), n, i)]
            @@ songplays_select(j[i].l, j[i].r)]

\* a songplays row without its songplay_id
Content(row) == [c \in (DOMAIN row) \ {"songplay_id"} |-> row[c]]

\* ------------------------------------------------------------ output bucket
\* A path string is a list of its pieces, "/" being a piece of its own.
\* line 148
output_data == << "s3a://semsem-dend", "/" >>

\* line 50: output_data + 'songs/songs.parquet'
songs_write_path == output_data \o << "songs", "/", "songs.parquet" >>
\* line 63
artists_path == output_data \o << "/", "artists", "/", "artists.parquet" >>
\* line 99
users_path == output_data \o << "/", "users", "/", "users.parquet" >>
\* line 120
time_path == output_data \o << "/", "time", "/", "time.parquet" >>
\* line 123: output_data + "/songs/songs.parquet"
songs_read_path == output_data \o << "/", "songs", "/", "songs.parquet" >>
\* line 142
songplays_path == output_data \o << "/", "songplays", "/", "songplays.parquet" >>

\* The file system's view of a path string: a run of slashes after the
\* bucket is one slash.
RECURSIVE Qualify(_)
Qualify(p) ==
    IF Len(p) < 2 THEN p
    ELSE IF p[1] = "/" /\ p[2] = "/" THEN Qualify(Tail(p))
    ELSE << p[1] >> \o Qualify(Tail(p))

Paths ==
    { Qualify(p) : p \in { songs_write_path, artists_path, users_path,
                           time_path, songs_read_path, songplays_path } }

\* What lies at a path: nothing, or the rows of a table.  complete says that
\* the write that put the rows there returned.
NoTable == [exists |-> FALSE, rows |-> << >>, complete |-> FALSE]

Table(rows, complete) == [exists |-> TRUE, rows |-> rows, complete |-> complete]

\* (variant) mode = 'append'
AppendRows(bucket, path, rows) ==
    [bucket EXCEPT ![Qualify(path)] = Table(@.rows \o rows, TRUE)]

\* DataFrameWriter.parquet(path, mode = 'overwrite'): what was at the path
\* is replaced by the rows
Overwrite(bucket, path, rows) ==
    [bucket EXCEPT ![Qualify(path)] = Table(rows, TRUE)]

\* What a write that raises can leave at its path: what was there, nothing
\* to read (the old table deleted, no file committed), or some of the files.
Remnants(old, rows) ==
    {old, NoTable} \cup { Table(SubSeq(rows, 1, k), FALSE) : k \in 1..(Len(rows) - 1) }

\* spark.read.parquet(path) raises when there is nothing to read at the path
Readable(t) == t.exists

\* ------------------------------------------------------------------- state
VARIABLES
    song_data,   \* the catalog records under input_data + song_data
    log_data,    \* the usage events under input_data + log_data
    sink,        \* the output bucket: qualified path -> what lies there
    entry,       \* the function invoked: "main" or "process_log_data"
    status,      \* "idle", "running", "done" or "failed" (an exception left it)
    todo,        \* the statements of the invocation still to run
    song_df,     \* the table read at line 123
    last         \* how the invocation before this one ended

vars == << song_data, log_data, sink, entry, status, todo, song_df, last >>

\* the statements of each function that touch the bucket, in program order
Statements(f) ==
    CASE f = "process_song_data" ->
            << "songs_table.write", "artists_table.write" >>
      [] f = "process_log_data" ->
            << "users_table.write", "time_table.write",
               "spark.read.parquet", "songplays_table.write" >>

\* (variant) the two calls of main in the other order
MainCallsSwapped == << "process_log_data", "process_song_data" >>

\* lines 150-151: main calls the two functions in this order
MainCalls == << "process_song_data", "process_log_data" >>

Plan(calls) == Concat([i \in 1..Len(calls) |-> Statements(calls[i])])

\* the path a writing statement writes
PathOf(stmt) ==
    CASE stmt = "songs_table.write"     -> songs_write_path
      [] stmt = "artists_table.write"   -> artists_path
      [] stmt = "users_table.write"     -> users_path
      [] stmt = "time_table.write"      -> time_path
      [] stmt = "songplays_table.write" -> songplays_path

\* the tables a writing statement can produce in the current state
Output(stmt) ==
    CASE stmt = "songs_table.write"     -> songs_table(song_data)
      [] stmt = "artists_table.write"   -> {artists_table(song_data)}
      [] stmt = "users_table.write"     -> {users_table(log_data)}
      [] stmt = "time_table.write"      -> {time_table(log_data)}
      [] stmt = "songplays_table.write" ->
            { songplays_table(log_data, song_df.rows, n) : n \in PartitionCounts }

Init ==
    /\ song_data \in Datasets(CatalogPool, MaxCatalog)
    /\ log_data \in Datasets(EventPool, MaxEvents)
    /\ sink = [p \in Paths |-> NoTable]
    /\ entry = "none"
    /\ status = "idle"
    /\ todo = << >>
    /\ song_df = NoTable
    /\ last = "none"

\* a new invocation: the statements to run, and how the one before ended
Start(f, plan) ==
    /\ entry' = f
    /\ status' = "running"
    /\ todo' = plan
    /\ song_df' = NoTable
    /\ last' = (CASE entry = "none" -> "none"
                  [] entry = "main" -> status
                  [] OTHER -> "other")
    /\ UNCHANGED << song_data, log_data, sink >>

\* lines 144-151, run when no invocation is running
main ==
    /\ status # "running"
    /\ Start("main", Plan(MainCalls))

\* process_log_data called by itself (lines 65-142)
process_log_data ==
    /\ status # "running"
    /\ Start("process_log_data", Plan(<< "process_log_data" >>))

Next1(stmt) == status = "running" /\ todo # << >> /\ Head(todo) = stmt

\* the statement returned: on to the next one
Return ==
    /\ todo' = Tail(todo)
    /\ status' = IF Tail(todo) = << >> THEN "done" ELSE "running"
    /\ UNCHANGED << song_data, log_data, entry, last >>

\* line 50
WriteSongs ==
    /\ Next1("songs_table.write")
    /\ \E rows \in songs_table(song_data) :
          sink' = Overwrite(sink, songs_write_path, rows)
    /\ UNCHANGED song_df
    /\ Return

\* line 63
WriteArtists ==
    /\ Next1("artists_table.write")
    /\ sink' = Overwrite(sink, artists_path, artists_table(song_data))
    /\ UNCHANGED song_df
    /\ Return

\* line 99
WriteUsers ==
    /\ Next1("users_table.write")
    /\ sink' = Overwrite(sink, users_path, users_table(log_data))
    /\ UNCHANGED song_df
    /\ Return

\* line 120
WriteTime ==
    /\ Next1("time_table.write")
    /\ sink' = Overwrite(sink, time_path, time_table(log_data))
    /\ UNCHANGED song_df
    /\ Return

\* line 142
WriteSongplays ==
    /\ Next1("songplays_table.write")
    /\ \E n \in PartitionCounts :
          sink' = Overwrite(sink, songplays_path,
                            songplays_table(log_data, song_df.rows, n))
    /\ UNCHANGED song_df
    /\ Return

\* line 123
ReadSongs ==
    /\ Next1("spark.read.parquet")
    /\ Readable(sink[Qualify(songs_read_path)])
    /\ song_df' = sink[Qualify(songs_read_path)]
    /\ UNCHANGED sink
    /\ Return

\* line 123 raises: nothing to read at the path
ReadFails ==
    /\ Next1("spark.read.parquet")
    /\ ~Readable(sink[Qualify(songs_read_path)])
    /\ status' = "failed"
    /\ UNCHANGED << song_data, log_data, sink, entry, todo, song_df, last >>

\* a write raises: the exception ends the invocation
WriteFails ==
    /\ status = "running" /\ todo # << >>
    /\ Head(todo) # "spark.read.parquet"
    /\ \E rows \in Output(Head(todo)) :
         \E left \in Remnants(sink[Qualify(PathOf(Head(todo)))], rows) :
            sink' = [sink EXCEPT ![Qualify(PathOf(Head(todo)))] = left]
    /\ status' = "failed"
    /\ UNCHANGED << song_data, log_data, entry, todo, song_df, last >>

Next ==
    \/ main
    \/ process_log_data
    \/ WriteSongs
    \/ WriteArtists
    \/ WriteUsers
    \/ WriteTime
    \/ ReadSongs
    \/ ReadFails
    \/ WriteSongplays
    \/ WriteFails

Spec == Init /\ [][Next]_vars

\* ------------------------------------------------------ names for the claims
SongsAt == sink[Qualify(songs_write_path)]
ArtistsAt == sink[Qualify(artists_path)]
UsersAt == sink[Qualify(users_path)]
TimeAt == sink[Qualify(time_path)]
SongplaysAt == sink[Qualify(songplays_path)]

Plays == df_filtered(log_data)

\* the statements the current invocation was started with
EntryPlan ==
    CASE entry = "main" -> Plan(MainCalls)
      [] entry = "process_log_data" -> Plan(<< "process_log_data" >>)
      [] OTHER -> << >>

\* stmt has run and returned in the current invocation
Executed(stmt) == stmt \in Range(EntryPlan) /\ stmt \notin Range(todo)

LogStatements == Range(Statements("process_log_data"))

\* row r of Songplays comes from event p
OfEvent(r, p) ==
    /\ r.user_id = p.userId
    /\ r.session_id = p.sessionId
    /\ r.level = p.level
    /\ r.location = p.location
    /\ r.user_agent = p.useragent
    /\ to_timestamp(r.timestamp) = p.ts.s

\* Songs row s agrees with play p on artist, song and duration
Agree(p, s) ==
    /\ p.artist # NULL /\ p.song # NULL /\ p.length # NULL
    /\ s.artist_name = p.artist /\ s.title = p.song /\ s.duration = p.length

\* the rows of a table, songplay_id apart
Contents(t) == [i \in 1..Len(t.rows) |-> Content(t.rows[i])]

\* C1: after process_log_data has completed, Songplays has exactly as many
\* rows as there are events with page = "NextSong", also when two Songs rows
\* with different song_id share (artist_name, title, duration).
C1_RowCount ==
    status = "done" => Len(SongplaysAt.rows) = Len(Plays)

\* C2: in a run of main, while a statement of process_log_data is next the
\* Songs write of this run has returned and the complete table it wrote is at
\* the path, and the table read at line 123 is that table.
C2_ReadsOwnSongs ==
    entry = "main" =>
        /\ (status = "running" /\ Head(todo) \in LogStatements) =>
               /\ Executed("songs_table.write")
               /\ SongsAt.complete
               /\ SongsAt.rows \in songs_table(song_data)
        /\ song_df.exists =>
               /\ Executed("songs_table.write")
               /\ song_df = SongsAt
               /\ song_df.complete
               /\ song_df.rows \in songs_table(song_data)

C2_Witness ==
    /\ entry = "main"
    /\ last = "done"
    /\ song_df.exists
    /\ Executed("spark.read.parquet")

\* C3: the Songs table is read and Songplays is written only when the Songs
\* write of the same invocation has returned; otherwise the invocation fails
\* and writes no Songplays.
C3_FailsFast ==
    (Executed("spark.read.parquet") \/ Executed("songplays_table.write")) =>
        /\ Executed("songs_table.write")
        /\ song_df.complete

\* C4: in a run of main that follows a complete run of main on the same
\* inputs, every write leaves at its path the rows that were there (Songplays:
\* songplay_id apart).
C4_Idempotent ==
    [][ ( /\ last = "done" /\ entry = "main" /\ status = "running"
          /\ Head(todo) # "spark.read.parquet"
          /\ todo' = Tail(todo) )
        => Contents(sink'[Qualify(PathOf(Head(todo)))])
             = Contents(sink[Qualify(PathOf(Head(todo)))]) ]_vars

\* C5: no two rows of Songs have the same song_id and no two rows of Time
\* have the same datetime.
C5_UniqueKeys ==
    /\ \A i \in 1..Len(SongsAt.rows) : \A j \in 1..Len(SongsAt.rows) :
          i # j => SongsAt.rows[i].song_id # SongsAt.rows[j].song_id
    /\ \A i \in 1..Len(TimeAt.rows) : \A j \in 1..Len(TimeAt.rows) :
          i # j => TimeAt.rows[i].datetime # TimeAt.rows[j].datetime

C5_Witness ==
    /\ SongsAt.complete /\ TimeAt.complete
    /\ \E i \in 1..Len(song_data) : \E j \in 1..Len(song_data) :
          i # j /\ song_data[i].song_id = song_data[j].song_id
    /\ \E i \in 1..Len(Plays) : \E j \in 1..Len(Plays) :
          /\ Plays[i].ts.s = Plays[j].ts.s
          /\ Plays[i].ts.ms # Plays[j].ts.ms
    /\ Len(SongsAt.rows) = 1
    /\ Len(TimeAt.rows) = 1

\* C6: after process_log_data has completed, every row of Songplays has a row
\* of Time with the datetime of its timestamp, the same year and the same
\* month name.
C6_TimeCoversSongplays ==
    status = "done" =>
        \A r \in Range(SongplaysAt.rows) :
            \E t \in Range(TimeAt.rows) :
                /\ t.datetime = to_timestamp(r.timestamp)
                /\ t.year = r.year
                /\ t.Month = r.month

C6_Witness ==
    /\ status = "done"
    /\ \E r1 \in Range(SongplaysAt.rows) : \E r2 \in Range(SongplaysAt.rows) :
          r1.month = "November" /\ r2.month = "December"

\* C7: after process_log_data has completed, the rows of a play carry the
\* song_id and artist_id of exactly the rows of the Songs table read that
\* agree with it on artist, song and duration; a play that no Songs row
\* agrees with has one row, with song_id and artist_id null.
C7_JoinCorrect ==
    status = "done" =>
        \A k \in 1..Len(Plays) :
            LET p      == Plays[k]
                at     == {i \in 1..Len(SongplaysAt.rows) : OfEvent(SongplaysAt.rows[i], p)}
                agreed == {s \in Range(song_df.rows) : Agree(p, s)}
            IN  /\ at # {}
                /\ agreed # {} =>
                      {<< SongplaysAt.rows[i].song_id, SongplaysAt.rows[i].artist_id >> : i \in at}
                        = {<< s.song_id, s.artist_id >> : s \in agreed}
                /\ agreed = {} =>
                      /\ Cardinality(at) = 1
                      /\ \A i \in at : /\ SongplaysAt.rows[i].song_id = NULL
                                       /\ SongplaysAt.rows[i].artist_id = NULL

C7_Witness ==
    /\ status = "done"
    /\ \E p \in Range(Plays) : \E s \in Range(song_df.rows) :
          /\ Agree(p, s)
          /\ \E r \in Range(SongplaysAt.rows) : OfEvent(r, p) /\ r.song_id = s.song_id
    /\ \E p \in Range(Plays) : \E s \in Range(song_df.rows) :
          /\ s.artist_name = p.artist /\ s.title = p.song /\ s.duration # p.length
          /\ \A s2 \in Range(song_df.rows) : ~Agree(p, s2)
          /\ \E r \in Range(SongplaysAt.rows) : OfEvent(r, p) /\ r.song_id = NULL

\* C8: the Users table written holds each (userId, firstName, lastName,
\* gender, level) of the usage events once, and nothing else.
C8_Users ==
    UsersAt.complete =>
        /\ \A i \in 1..Len(UsersAt.rows) : \A j \in 1..Len(UsersAt.rows) :
              i # j => UsersAt.rows[i] # UsersAt.rows[j]
        /\ Range(UsersAt.rows)
             = { [userId |-> e.userId, firstName |-> e.firstName,
                  lastName |-> e.lastName, gender |-> e.gender, level |-> e.level] :
                 e \in Range(log_data) }

C8_Witness ==
    /\ UsersAt.complete
    /\ \E a \in Range(log_data) : \E b \in Range(log_data) :
          /\ a.userId = b.userId /\ a.firstName = b.firstName
          /\ a.lastName = b.lastName /\ a.gender = b.gender
          /\ a.level = "free" /\ b.level = "paid"
          /\ Cardinality({i \in 1..Len(UsersAt.rows) : UsersAt.rows[i].userId = a.userId}) = 2

\* C9: after process_log_data has completed, every usage event has its Users
\* row, every Time row is the datetime of a play, and every Songplays row
\* comes from a play.
C9_Bases ==
    status = "done" =>
        /\ \A e \in Range(log_data) :
              \E u \in Range(UsersAt.rows) : u.userId = e.userId /\ u.level = e.level
        /\ \A t \in Range(TimeAt.rows) :
              \E p \in Range(log_data) :
                  p.page = "NextSong" /\ to_timestamp(from_unixtime(p.ts.s)) = t.datetime
        /\ \A r \in Range(SongplaysAt.rows) :
              \E p \in Range(log_data) : p.page = "NextSong" /\ OfEvent(r, p)
        /\ \A e \in Range(log_data) :
              e.page # "NextSong" => \A r \in Range(SongplaysAt.rows) : ~OfEvent(r, e)

C9_Witness ==
    /\ status = "done"
    /\ Plays # << >>
    /\ \E e \in Range(log_data) :
          /\ e.page # "NextSong"
          /\ \A p \in Range(Plays) : p.userId # e.userId
          /\ \E u \in Range(UsersAt.rows) : u.userId = e.userId
          /\ \A t \in Range(TimeAt.rows) : t.datetime # e.ts.s

\* the tables a writing statement of a run on an empty bucket can leave
Clean(stmt) ==
    CASE stmt = "songs_table.write"     -> songs_table(song_data)
      [] stmt = "artists_table.write"   -> {artists_table(song_data)}
      [] stmt = "users_table.write"     -> {users_table(log_data)}
      [] stmt = "time_table.write"      -> {time_table(log_data)}
      [] stmt = "songplays_table.write" ->
            { songplays_table(log_data, SongsAt.rows, n) : n \in PartitionCounts }

Writes == Range(Plan(MainCalls)) \ {"spark.read.parquet"}

LeftByThisRun(stmt) ==
    /\ sink[Qualify(PathOf(stmt))].complete
    /\ sink[Qualify(PathOf(stmt))].rows \in Clean(stmt)

\* C10: in a run of main, a statement that raises ends the run: nothing is
\* written after it, and the tables the run had written stay as written; a
\* complete run leaves at every path a table that a run on an empty bucket
\* can leave, whatever was in the bucket before.
C10_FatalAndRerun ==
    /\ [](entry = "main" =>
            /\ status = "failed" =>
                  /\ todo # << >>
                  /\ \A stmt \in Writes : Executed(stmt) => LeftByThisRun(stmt)
            /\ status = "done" => \A stmt \in Writes : LeftByThisRun(stmt))
    /\ [][status = "failed" => sink' = sink]_vars

C10_Witness ==
    /\ entry = "main"
    /\ status = "done"
    /\ last = "failed"

====
